---- MODULE Spec2Model ----
(***************************************************************************)
(* onnx_chainer.export: the export() function and the ONNXExport function  *)
(* hook.  A forward computation builds a history of operators; one         *)
(* backward traversal per returned Variable drives the hook, which names   *)
(* tensors by object identity, converts each operator and accumulates the  *)
(* nodes; export() then assembles, validates and writes the graph.         *)
(***************************************************************************)
EXTENDS Naturals, Sequences, FiniteSets, TLC

\* Largest number of operators the forward computation applies.
MaxOps == 2

Range(s) == {s[i] : i \in DOMAIN s}

Reverse(s) == [i \in 1..Len(s) |-> s[Len(s) + 1 - i]]

\* ---------------------------------------------------------------- the model
\* model.params(): the Parameters of the chain, in declaration order.
Params == <<"a", "b">>

\* The example inputs args, each wrapped in a chainer.Variable.
NetArgs == <<"x">>

\* The Variable the k-th applied operator returns.
OutT(k) == "t" \o ToString(k)

\* Forms of the args argument and of the model's return value ("sequence":
\* a list or a tuple).
ArgForms == {"list", "tuple", "dict", "ndarray"}

OutForms == {"Variable", "sequence", "dict"}

\* The operator kinds (function class names) by number of inputs.
KindsOfArity(n) == IF n = 1 THEN {"ReLU", "Rsqrt", "Foo"} ELSE {"Add", "LinearFunction"}

\* hasattr(functions, 'convert_' + func_name)
Registry == {"ReLU", "Rsqrt", "Add", "LinearFunction"}

VARIABLES
    pc,                     \* position in export()
    args,                   \* form of the args argument
    callStyle,              \* how the model was called: "none", "positional", "keyword"
    ops,                    \* forward history: sequence of [kind, inputs, out]
    outputs,                \* tensors the model returned, in order
    outForm,                \* form of the model's return value
    hooked,                 \* the ONNXExport hook is registered with chainer
    cur,                    \* index of the output whose backward() is running
    pending,                \* candidate functions of the running backward()
    seen,                   \* functions the running backward() has reached
    graph,                  \* o.graph
    additional_parameters,  \* o.additional_parameters (names)
    network_inputs,         \* o.network_inputs (keys, insertion order)
    trace,                  \* history: hook invocations [out, op]
    checked,                \* nodes that passed checker.check_node
    initializers,           \* names of the initializer tensors
    input_tensors,          \* names of the declared inputs
    onnx_graph,             \* the assembled graph
    export_params,          \* the export_params argument
    validated,              \* checks passed: subset of {"graph", "model"}
    written,                \* destinations written
    result,                 \* value export() returned: "none" or "model"
    error,                  \* exception raised: <<>> or <<type, message>>
    leaked                  \* this session's hook observed a backward() run after export()

vars == <<pc, args, callStyle, ops, outputs, outForm, hooked, cur, pending, seen,
          graph, additional_parameters, network_inputs, trace, checked,
          initializers, input_tensors, onnx_graph, export_params, validated,
          written, result, error, leaked>>

NoGraph == [node |-> <<>>, input |-> <<>>, output |-> <<>>, initializer |-> <<>>]

Init ==
    /\ pc = "dispatch"
    /\ args \in ArgForms
    /\ callStyle = "none"
    /\ ops = <<>>
    /\ outputs = <<>>
    /\ outForm = "none"
    /\ hooked = FALSE
    /\ cur = 0
    /\ pending = {}
    /\ seen = {}
    /\ graph = <<>>
    /\ additional_parameters = <<>>
    /\ network_inputs = <<>>
    /\ trace = <<>>
    /\ checked = {}
    /\ initializers = <<>>
    /\ input_tensors = <<>>
    /\ onnx_graph = NoGraph
    /\ export_params = TRUE
    /\ validated = {}
    /\ written = {}
    /\ result = "none"
    /\ error = <<>>
    /\ leaked = FALSE

\* ------------------------------------------------- the forward computation
Leaves == Range(Params) \cup Range(NetArgs)

IsParameter(t) == t \in Range(Params)

\* The tensors in existence when n operators have been applied.
TensorOrder(n) == NetArgs \o [k \in 1..n |-> OutT(k)] \o Params

SeqOfSet(S, n) == SelectSeq(TensorOrder(n), LAMBDA t : t \in S)

\* An operator consumes one or two distinct tensors, at least one of them
\* not a Parameter.
InputChoices(n) ==
    LET T == Range(TensorOrder(n))
    IN  {SeqOfSet(S, n) : S \in {S \in SUBSET T :
            /\ Cardinality(S) \in {1, 2}
            /\ \E t \in S : ~IsParameter(t)}}

\* The model returns one or more distinct Variables its operators produced.
OutputChoices ==
    LET T == {ops[k].out : k \in DOMAIN ops}
    IN  {s \in UNION {[1..m -> T] : m \in 1..Cardinality(T)} :
            \A i, j \in DOMAIN s : i # j => s[i] # s[j]}

\* creator_node of a tensor's VariableNode: the operator that produced it.
Creator(t) == {k \in DOMAIN ops : ops[k].out = t}

\* FunctionNode.rank: one more than the largest rank among the creators of
\* the inputs (0 when every input is a leaf).
RECURSIVE FuncRank(_)
FuncRank(k) ==
    LET up == UNION {Creator(t) : t \in Range(ops[k].inputs)}
    IN  IF up = {} THEN 0
        ELSE 1 + FuncRank(CHOOSE j \in up : \A i \in up : FuncRank(i) <= FuncRank(j))

\* The operators a tensor depends on.
RECURSIVE Ancestors(_)
Ancestors(t) ==
    UNION {{k} \cup UNION {Ancestors(u) : u \in Range(ops[k].inputs)} : k \in Creator(t)}

\* VariableNode.get_variable_or_none() is not None: the Variable wrapper is
\* still referenced (Parameters by the model, inputs by args, returned
\* tensors by outputs; the temporaries of the forward pass are gone).
Alive(t) == t \in Leaves \/ t \in Range(outputs)

\* str(id(obj)) of a Variable (or Parameter) object and of a VariableNode.
VarId(t) == <<"Variable", t>>

NodeId(t) == <<"VariableNode", t>>

\* ---------------------------------------------------------------- the hook
\* Lines 73-83: the name appended to input_names for input i.
InputName(t) == IF ~Alive(t) THEN NodeId(t) ELSE VarId(t)

\* Faulty variant: a Variable that is still alive is never stored (line 83 missing).
RegistersDeadOnly(t) == IF ~Alive(t) THEN TRUE ELSE FALSE

\* Lines 76-77 and 83: the input is stored in self.network_inputs.
RegistersInput(t) == IF ~Alive(t) THEN TRUE ELSE ~IsParameter(t)

InputNames(op) == [i \in DOMAIN op.inputs |-> InputName(op.inputs[i])]

\* Line 84: str(id(o())) of the output VariableNodes.
OutputNames(op) == <<NodeId(op.out)>>

\* Assignment into the insertion-ordered dict: a new key goes last, an
\* existing key keeps its place.
RECURSIVE PutKeys(_, _)
PutKeys(d, names) ==
    IF names = <<>> THEN d
    ELSE PutKeys(IF Head(names) \in Range(d) THEN d ELSE Append(d, Head(names)),
                 Tail(names))

NetworkInputsAfter(d, op) ==
    LET reg == SelectSeq(op.inputs, RegistersInput)
    IN  PutKeys(d, [i \in DOMAIN reg |-> InputName(reg[i])])

Node(type, in, out) == [op_type |-> type, input |-> in, output |-> out]

\* The converters of onnx_chainer.functions: the nodes they return and the
\* Parameters they append to the parameters list (n of them are there).
Convert(kind, in, out, n) ==
    CASE kind = "Add" ->
            [nodes |-> <<Node("Add", in, out)>>, parameters |-> <<>>]
      [] kind = "ReLU" ->
            [nodes |-> <<Node("Relu", in, out)>>, parameters |-> <<>>]
      [] kind = "LinearFunction" ->
            LET bias == VarId("p" \o ToString(n + 1))
            IN  [nodes |-> <<Node("Gemm", Append(in, bias), out)>>,
                 parameters |-> <<bias>>]
      [] kind = "Rsqrt" ->
            LET tmp == <<"tmp", out[1][2]>>
            IN  [nodes |-> <<Node("Reciprocal", <<tmp>>, out),
                             Node("Sqrt", in, <<tmp>>)>>,
                 parameters |-> <<>>]

\* create_node, lines 47-53: the converter lookup.
Supported(kind) == kind \in Registry

\* Faulty variant: every node is appended (the test of line 89 missing).
AppendAll(g, nodes) == g \o nodes

\* Lines 88-90: append each node that is not yet in self.graph.
RECURSIVE AppendNew(_, _)
AppendNew(g, nodes) ==
    IF nodes = <<>> THEN g
    ELSE AppendNew(IF Head(nodes) \in Range(g) THEN g ELSE Append(g, Head(nodes)),
                   Tail(nodes))

\* Faulty variant: the hook is registered without a with block and stays on a raise.
HookedStays == TRUE

\* What is left registered with chainer when an exception leaves the with
\* block: FunctionHook.__exit__ removes the hook.
HookedAfterRaise == FALSE

\* ------------------------------------------------------------------ export
\* Line 133: args becomes a list in both branches.
NormalizedArgs(a) == IF a \in {"list", "tuple"} THEN "list" ELSE "list"

\* Lines 134-136: the elements chainer.Variable() is applied to; it accepts
\* arrays only.
WrapRaises(a) == a \notin {"list", "tuple", "ndarray"}

\* Lines 139-146: the dispatch on the (rebound) args.
CallStyleOf(a) ==
    IF a = "list" THEN "positional"
    ELSE IF a = "dict" THEN "keyword"
    ELSE "ValueError"

Raise(type, msg) ==
    /\ pc' = "raised"
    /\ error' = <<type, msg>>

Dispatch ==
    /\ pc = "dispatch"
    /\ args' = NormalizedArgs(args)
    /\ IF WrapRaises(args)
       THEN /\ Raise("TypeError", args)
            /\ UNCHANGED callStyle
       ELSE IF CallStyleOf(args') = "ValueError"
       THEN /\ Raise("ValueError", args')
            /\ UNCHANGED callStyle
       ELSE /\ callStyle' = CallStyleOf(args')
            /\ pc' = "forward"
            /\ UNCHANGED error
    /\ UNCHANGED <<ops, outputs, outForm, hooked, cur, pending, seen, graph,
                   additional_parameters, network_inputs, trace, checked,
                   initializers, input_tensors, onnx_graph, export_params,
                   validated, written, result, leaked>>

\* model(*args): the model applies one more operator.
ApplyOp ==
    /\ pc = "forward"
    /\ Len(ops) < MaxOps
    /\ \E ins \in InputChoices(Len(ops)) :
       \E kind \in KindsOfArity(Len(ins)) :
          ops' = Append(ops, [kind |-> kind, inputs |-> ins, out |-> OutT(Len(ops) + 1)])
    /\ UNCHANGED <<pc, args, callStyle, outputs, outForm, hooked, cur, pending, seen,
                   graph, additional_parameters, network_inputs, trace, checked,
                   initializers, input_tensors, onnx_graph, export_params,
                   validated, written, result, error, leaked>>

\* model(*args) returns.
ModelReturns ==
    /\ pc = "forward"
    /\ \E outs \in OutputChoices :
       \E form \in OutForms :
          /\ form = "Variable" => Len(outs) = 1
          /\ outputs' = outs
          /\ outForm' = form
    /\ pc' = "params"
    /\ UNCHANGED <<args, callStyle, ops, hooked, cur, pending, seen, graph,
                   additional_parameters, network_inputs, trace, checked,
                   initializers, input_tensors, onnx_graph, export_params,
                   validated, written, result, error, leaked>>

\* Lines 148-154: an initializer and a declared input per model Parameter.
CollectParams ==
    /\ pc = "params"
    /\ initializers' = [i \in DOMAIN Params |-> VarId(Params[i])]
    /\ input_tensors' = [i \in DOMAIN Params |-> VarId(Params[i])]
    /\ pc' = "with"
    /\ UNCHANGED <<args, callStyle, ops, outputs, outForm, hooked, cur, pending, seen,
                   graph, additional_parameters, network_inputs, trace, checked,
                   onnx_graph, export_params, validated, written, result, error, leaked>>

\* Line 156: with ONNXExport() as o -- the hook is registered.
EnterHook ==
    /\ pc = "with"
    /\ hooked' = TRUE
    /\ pc' = "loop"
    /\ cur' = 0
    /\ UNCHANGED <<args, callStyle, ops, outputs, outForm, pending, seen, graph,
                   additional_parameters, network_inputs, trace, checked,
                   initializers, input_tensors, onnx_graph, export_params,
                   validated, written, result, error, leaked>>

\* Faulty variant: backward() is called on the first element of a list or tuple only.
FirstTargetOnly ==
    IF outForm = "sequence" THEN <<outputs[1]>>
    ELSE IF outForm = "Variable" THEN outputs
    ELSE <<>>

\* Lines 157-164: the outputs a backward() is called on.
BackwardTargets ==
    IF outForm = "sequence" THEN outputs
    ELSE IF outForm = "Variable" THEN outputs
    ELSE <<>>

\* Lines 159-161, 163-164: output.backward() starts at the output's creator.
StartBackward ==
    /\ pc = "loop"
    /\ cur < Len(BackwardTargets)
    /\ cur' = cur + 1
    /\ pending' = Creator(BackwardTargets[cur + 1])
    /\ seen' = Creator(BackwardTargets[cur + 1])
    /\ pc' = "backward"
    /\ UNCHANGED <<args, callStyle, ops, outputs, outForm, hooked, graph,
                   additional_parameters, network_inputs, trace, checked,
                   initializers, input_tensors, onnx_graph, export_params,
                   validated, written, result, error, leaked>>

\* The with block ends: the hook is removed.
ExitHook ==
    /\ pc = "loop"
    /\ cur = Len(BackwardTargets)
    /\ hooked' = FALSE
    /\ pc' = "assemble"
    /\ UNCHANGED <<args, callStyle, ops, outputs, outForm, cur, pending, seen, graph,
                   additional_parameters, network_inputs, trace, checked,
                   initializers, input_tensors, onnx_graph, export_params,
                   validated, written, result, error, leaked>>

\* backward() takes the candidate of largest rank next.
NextFunctions == {k \in pending : \A j \in pending : FuncRank(j) <= FuncRank(k)}

\* ONNXExport.backward_postprocess, called by backward() for function k;
\* valid tells whether checker.check_node accepts the nodes.
Hook(k, valid) ==
    LET op == ops[k]
        in == InputNames(op)
        out == OutputNames(op)
        conv == Convert(op.kind, in, out, Len(additional_parameters))
        up == UNION {Creator(t) : t \in Range(op.inputs)}
    IN  /\ trace' = Append(trace, [out |-> cur, op |-> k])
        /\ network_inputs' = NetworkInputsAfter(network_inputs, op)
        /\ IF ~Supported(op.kind)
           THEN /\ Raise("ValueError", op.kind)
                /\ hooked' = HookedAfterRaise
                /\ UNCHANGED <<additional_parameters, graph, checked, pending, seen>>
           ELSE /\ additional_parameters' = additional_parameters \o conv.parameters
                /\ IF ~valid
                   THEN /\ Raise("ValidationError", "node")
                        /\ hooked' = HookedAfterRaise
                        /\ UNCHANGED <<graph, checked, pending, seen>>
                   ELSE /\ checked' = checked \cup Range(conv.nodes)
                        /\ graph' = AppendNew(graph, conv.nodes)
                        /\ pending' = (pending \ {k}) \cup (up \ seen)
                        /\ seen' = seen \cup up
                        /\ UNCHANGED <<pc, error, hooked>>
        /\ UNCHANGED <<args, callStyle, ops, outputs, outForm, cur, initializers,
                       input_tensors, onnx_graph, export_params, validated, written,
                       result, leaked>>

BackwardStep ==
    /\ pc = "backward"
    /\ \E k \in NextFunctions : \E valid \in BOOLEAN : Hook(k, valid)

\* output.backward() returns.
BackwardReturns ==
    /\ pc = "backward"
    /\ pending = {}
    /\ pc' = "loop"
    /\ UNCHANGED <<args, callStyle, ops, outputs, outForm, hooked, cur, pending, seen,
                   graph, additional_parameters, network_inputs, trace, checked,
                   initializers, input_tensors, onnx_graph, export_params,
                   validated, written, result, error, leaked>>

\* output.backward() raises by itself (a failing gradient computation).
BackwardFails ==
    /\ pc = "backward"
    /\ pending # {}
    /\ Raise("RuntimeError", "backward")
    /\ hooked' = HookedAfterRaise
    /\ UNCHANGED <<args, callStyle, ops, outputs, outForm, cur, pending, seen, graph,
                   additional_parameters, network_inputs, trace, checked,
                   initializers, input_tensors, onnx_graph, export_params,
                   validated, written, result, leaked>>

\* Lines 183-191: the declared outputs, named by the returned Variables.
OutputTensors == [i \in DOMAIN outputs |-> VarId(outputs[i])]

\* Faulty variant: the initializers are kept whatever export_params says.
KeepInitializers(all, ep) == all

\* Lines 193-194.
Initializers(all, ep) == IF ~ep THEN <<>> ELSE all

\* Lines 166-198: additional parameters, network inputs, the reversed node
\* list, the outputs and helper.make_graph.
Assemble ==
    /\ pc = "assemble"
    /\ \E ep \in BOOLEAN :
          /\ export_params' = ep
          /\ initializers' = initializers \o additional_parameters
          /\ input_tensors' = input_tensors \o additional_parameters \o network_inputs
          /\ onnx_graph' = [node |-> Reverse(graph),
                            input |-> input_tensors',
                            output |-> OutputTensors,
                            initializer |-> Initializers(initializers', ep)]
    /\ pc' = "check_graph"
    /\ UNCHANGED <<args, callStyle, ops, outputs, outForm, hooked, cur, pending, seen,
                   graph, additional_parameters, network_inputs, trace, checked,
                   validated, written, result, error, leaked>>

\* Faulty variant: the checker's error is swallowed and export() goes on.
ContinueAfterFailedCheck(next) == next

\* Where export() continues when a checker call raises: nowhere.
PcAfterFailedCheck(next) == "raised"

\* Line 200: checker.check_graph accepts the graph or raises.
CheckGraph ==
    /\ pc = "check_graph"
    /\ \E valid \in BOOLEAN :
          IF valid
          THEN /\ validated' = validated \cup {"graph"}
               /\ pc' = "check_model"
               /\ UNCHANGED error
          ELSE /\ pc' = PcAfterFailedCheck("check_model")
               /\ error' = <<"ValidationError", "graph">>
               /\ UNCHANGED validated
    /\ UNCHANGED <<args, callStyle, ops, outputs, outForm, hooked, cur, pending, seen,
                   graph, additional_parameters, network_inputs, trace, checked,
                   initializers, input_tensors, onnx_graph, export_params, written,
                   result, leaked>>

\* Lines 202-209: helper.make_model and checker.check_model.
CheckModel ==
    /\ pc = "check_model"
    /\ \E valid \in BOOLEAN :
          IF valid
          THEN /\ validated' = validated \cup {"model"}
               /\ pc' = "write"
               /\ UNCHANGED error
          ELSE /\ pc' = PcAfterFailedCheck("write")
               /\ error' = <<"ValidationError", "model">>
               /\ UNCHANGED validated
    /\ UNCHANGED <<args, callStyle, ops, outputs, outForm, hooked, cur, pending, seen,
                   graph, additional_parameters, network_inputs, trace, checked,
                   initializers, input_tensors, onnx_graph, export_params, written,
                   result, leaked>>

\* The kinds of the filename argument.
Filenames == {"None", "str", "stream", "other"}

\* Lines 211-218: what is written for a filename and save_text.
Destinations(filename, save_text) ==
    IF filename = "str"
    THEN IF save_text THEN {"binary file", "text file"} ELSE {"binary file"}
    ELSE IF filename = "stream" THEN {"stream"}
    ELSE {}

\* Lines 211-220: the writes and the return.
WriteAndReturn ==
    /\ pc = "write"
    /\ \E filename \in Filenames : \E save_text \in BOOLEAN :
          written' = Destinations(filename, save_text)
    /\ result' = "model"
    /\ pc' = "done"
    /\ UNCHANGED <<args, callStyle, ops, outputs, outForm, hooked, cur, pending, seen,
                   graph, additional_parameters, network_inputs, trace, checked,
                   initializers, input_tensors, onnx_graph, export_params, validated,
                   error, leaked>>

\* After export() has returned or raised, some other computation of the
\* process runs a backward pass; a hook still registered observes it.
LaterBackward ==
    /\ pc \in {"done", "raised"}
    /\ leaked' = (leaked \/ hooked)
    /\ UNCHANGED <<pc, args, callStyle, ops, outputs, outForm, hooked, cur, pending,
                   seen, graph, additional_parameters, network_inputs, trace, checked,
                   initializers, input_tensors, onnx_graph, export_params, validated,
                   written, result, error>>

Next ==
    \/ Dispatch
    \/ ApplyOp
    \/ ModelReturns
    \/ CollectParams
    \/ EnterHook
    \/ StartBackward
    \/ BackwardStep
    \/ BackwardReturns
    \/ BackwardFails
    \/ ExitHook
    \/ Assemble
    \/ CheckGraph
    \/ CheckModel
    \/ WriteAndReturn
    \/ LaterBackward

Spec == Init /\ [][Next]_vars

\* ------------------------------------------------------------- properties
Assembled == onnx_graph # NoGraph

ParamNames == [i \in DOMAIN Params |-> VarId(Params[i])]

\* The operators the returned tensors depend on.
Needed == UNION {Ancestors(outputs[i]) : i \in DOMAIN outputs}

\* The hook invocations of the j-th backward traversal, in order.
Observed(j) == SelectSeq(trace, LAMBDA e : e.out = j)

NoDuplicates(s) == \A i, j \in DOMAIN s : i # j => s[i] # s[j]

IsPrefix(s, t) == Len(s) <= Len(t) /\ \A i \in DOMAIN s : s[i] = t[i]

Consumes(a, b) == ops[b].out \in Range(ops[a].inputs)

NamesOf(t) ==
    {n \in UNION {Range(onnx_graph.node[i].input) \cup Range(onnx_graph.node[i].output)
                    : i \in DOMAIN onnx_graph.node}
           \cup Range(onnx_graph.input) \cup Range(onnx_graph.output) :
        n[1] \in {"Variable", "VariableNode"} /\ n[2] = t}

\* C2: within one export each tensor has one name wherever it is met: as the
\* output of its producer, as an input of a consumer, as a declared graph
\* input or output.
C2_OneIdentityPerTensor ==
    Assembled => \A t \in Leaves \cup {ops[k].out : k \in DOMAIN ops} :
                    Cardinality(NamesOf(t)) <= 1

\* C3: every identity registered in network_inputs is consumed by a captured
\* operator, is not the output of a captured operator and is not a Parameter.
C3_NetworkInputsAreBoundary ==
    Assembled =>
        \A n \in Range(network_inputs) :
            /\ \E i \in DOMAIN graph : n \in Range(graph[i].input)
            /\ \A i \in DOMAIN graph : n \notin Range(graph[i].output)
            /\ n \notin Range(ParamNames)

\* C4: nothing is written unless the nodes, the graph and the model have been
\* validated; an operator without a converter makes export raise an error
\* naming its kind, return nothing and write nothing.
C4_NoWriteBeforeValidation ==
    /\ written # {} =>
          /\ validated = {"graph", "model"}
          /\ Range(onnx_graph.node) \subseteq checked
          /\ error = <<>>
    /\ \A i \in DOMAIN trace :
          ~Supported(ops[trace[i].op].kind) =>
              /\ pc = "raised"
              /\ error = <<"ValueError", ops[trace[i].op].kind>>
    /\ pc = "raised" => written = {} /\ result = "none"

\* C4 witness: the traversal reached an unsupported operator after a node
\* had been accepted.
C4_Witness ==
    /\ pc = "raised"
    /\ error = <<"ValueError", "Foo">>
    /\ graph # <<>>

\* C5: a list or tuple is passed positionally, a dict as keyword arguments,
\* anything else raises the invalid-argument ValueError before the model is
\* called.
C5_ArgsDispatch ==
    [][pc = "dispatch" =>
          /\ args \in {"list", "tuple"} => callStyle' = "positional"
          /\ args = "dict" => callStyle' = "keyword"
          /\ args \notin {"list", "tuple", "dict"} =>
                /\ callStyle' = "none"
                /\ error' # <<>>
                /\ error'[1] = "ValueError"]_vars

C7_Deduplicated ==
    [][NoDuplicates(graph') /\ IsPrefix(graph, graph')]_vars

\* C7 witness: an operator converted into two nodes was traversed by two
\* backward passes.
C7_Witness ==
    /\ pc = "done"
    /\ \E i, j \in DOMAIN trace :
          /\ trace[i].out # trace[j].out
          /\ trace[i].op = trace[j].op
          /\ ops[trace[i].op].kind = "Rsqrt"

\* C8: the hook is registered only while the backward traversals of the
\* export run; it observes no backward pass run after export returned or
\* raised.
C8_HookScoped ==
    /\ hooked => pc \in {"loop", "backward"}
    /\ ~leaked

\* C8 witness: the traversal raised at an unsupported operator.
C8_Witness ==
    /\ pc = "raised"
    /\ error # <<>>
    /\ error[1] = "ValueError"
    /\ trace # <<>>
    /\ ~hooked

\* The backward traversals are over and nothing raised in them.
TraversalsDone == pc \in {"assemble", "check_graph", "check_model", "write", "done"}

Occurrences(s, k) == Cardinality({i \in DOMAIN s : s[i].op = k})

C10_AllOutputsTraversed ==
    Assembled =>
        /\ Len(onnx_graph.output) = Len(outputs)
        /\ \A k \in Needed :
              \E i \in DOMAIN onnx_graph.node :
                  NodeId(ops[k].out) \in Range(onnx_graph.node[i].output)

====
